---- MODULE Spec2Model ----
(***************************************************************************)
(* yfinance_fetcher.py: one command-line invocation, from sys.argv to the  *)
(* printed JSON document and the exit status.                              *)
(*                                                                         *)
(* A Python str is a sequence of string tokens (single characters for the  *)
(* inputs, literal chunks for the pieces of a format string), so that      *)
(* parsing, formatting, upper() and the substring tests on exception text  *)
(* are computed and not assumed.                                           *)
(***************************************************************************)
EXTENDS Integers, Sequences, FiniteSets, TLC

VARIABLES
    argv,            \* sys.argv, program name first
    pc,              \* position in main / fetch_yfinance_data
    symbol,          \* fetch_yfinance_data's arguments
    interval,
    date_str,
    target_date,     \* datetime.strptime's result
    data,            \* the table yf.download returned (its rows, in order)
    i,               \* position of data.iterrows()
    formatted_data,  \* the bars appended so far
    kept,            \* indices of the rows appended so far (ghost)
    raised,          \* the exception caught by the except clauses, if any (ghost)
    result,          \* the dict fetch_yfinance_data returned
    stdout,          \* the documents printed
    exit_status,     \* the process's exit status once pc = "exited"
    downloads        \* number of calls of yf.download (ghost)

vars == <<argv, pc, symbol, interval, date_str, target_date, data, i,
          formatted_data, kept, raised, result, stdout, exit_status, downloads>>

(***************************************************************************)
(* Bounds of the model.                                                    *)
(***************************************************************************)
MaxRows == 2

(***************************************************************************)
(* Strings.                                                                *)
(***************************************************************************)
DigitChar == <<"0", "1", "2", "3", "4", "5", "6", "7", "8", "9">>

IsDigit(c) == \E k \in 1..10 : DigitChar[k] = c

DigitVal(c) == (CHOOSE k \in 1..10 : DigitChar[k] = c) - 1

Contains(s, tok) == \E k \in 1..Len(s) : s[k] = tok

Lower == <<"a", "b", "m", "s", "t">>
Upper == <<"A", "B", "M", "S", "T">>

UpperChar(c) == IF \E k \in 1..Len(Lower) : Lower[k] = c
                THEN Upper[CHOOSE k \in 1..Len(Lower) : Lower[k] = c]
                ELSE c

\* str.upper()
StrUpper(s) == [k \in 1..Len(s) |-> UpperChar(s[k])]

RECURSIVE Join(_, _)
\* sep.join(list)
Join(sep, list) ==
    IF Len(list) = 0 THEN <<>>
    ELSE IF Len(list) = 1 THEN list[1]
    ELSE list[1] \o sep \o Join(sep, Tail(list))

(***************************************************************************)
(* The proleptic Gregorian calendar of datetime.  The helpers that are     *)
(* applied to computed values are functions, so that an argument is        *)
(* computed once.                                                          *)
(***************************************************************************)
IsLeap(y) == y % 4 = 0 /\ (y % 100 # 0 \/ y % 400 = 0)

DaysInMonth(y, m) ==
    IF m = 2 THEN (IF IsLeap(y) THEN 29 ELSE 28)
    ELSE IF m \in {4, 6, 9, 11} THEN 30 ELSE 31

DaysBeforeYear[y \in Int] ==
    (y - 1) * 365 + (y - 1) \div 4 - (y - 1) \div 100 + (y - 1) \div 400

\* days of a common year before each month
DAYS_BEFORE_MONTH == <<0, 31, 59, 90, 120, 151, 181, 212, 243, 273, 304, 334>>

DaysBeforeMonth(y, m) ==
    DAYS_BEFORE_MONTH[m] + (IF m > 2 /\ IsLeap(y) THEN 1 ELSE 0)

\* date.toordinal(): 0001-01-01 is day 1
Ordinal(y, m, d) == DaysBeforeYear[y] + DaysBeforeMonth(y, m) + d

\* date.weekday(): Monday is 0
Weekday(y, m, d) == (Ordinal(y, m, d) + 6) % 7

\* the years the timestamps of the model fall in
Years == 2023..2025

YearOf[n \in Int] ==
    CHOOSE y \in Years : DaysBeforeYear[y] < n /\ n <= DaysBeforeYear[y + 1]

MonthOf[y \in Int, dayOfYear \in Int] ==
    CHOOSE m \in 1..12 :
        /\ DaysBeforeMonth(y, m) < dayOfYear
        /\ dayOfYear <= DaysBeforeMonth(y, m) + DaysInMonth(y, m)

YearMonthDay[y \in Int, m \in Int, dayOfYear \in Int] ==
    [year |-> y, month |-> m, day |-> dayOfYear - DaysBeforeMonth(y, m)]

YearDay[y \in Int, dayOfYear \in Int] ==
    YearMonthDay[y, MonthOf[y, dayOfYear], dayOfYear]

\* date.fromordinal()
FromOrdinal[n \in Int] == YearDay[YearOf[n], n - DaysBeforeYear[YearOf[n]]]

(***************************************************************************)
(* datetime.strptime(date_str, '%Y-%m-%d').                                *)
(* %Y is \d\d\d\d, %m is 1[0-2]|0[1-9]|[1-9], %d is                        *)
(* 3[01]|[12]\d|0[1-9]|[1-9]| [1-9]; the match is anchored at the start,   *)
(* text left over is "unconverted data", and the date is validated last.   *)
(***************************************************************************)
At(s, k) == IF k >= 1 /\ k <= Len(s) THEN s[k] ELSE ""

\* number of characters %m takes at position k (0: no match), given that a
\* "-" has to follow
MatchMonth(s, k) ==
    IF At(s, k) = "1" /\ At(s, k + 1) \in {"0", "1", "2"} /\ At(s, k + 2) = "-" THEN 2
    ELSE IF At(s, k) = "0" /\ IsDigit(At(s, k + 1)) /\ At(s, k + 1) # "0"
            /\ At(s, k + 2) = "-" THEN 2
    ELSE IF IsDigit(At(s, k)) /\ At(s, k) # "0" /\ At(s, k + 1) = "-" THEN 1
    ELSE 0

\* number of characters %d takes at position k (0: no match)
MatchDay(s, k) ==
    IF At(s, k) = "3" /\ At(s, k + 1) \in {"0", "1"} THEN 2
    ELSE IF At(s, k) \in {"1", "2"} /\ IsDigit(At(s, k + 1)) THEN 2
    ELSE IF At(s, k) = "0" /\ IsDigit(At(s, k + 1)) /\ At(s, k + 1) # "0" THEN 2
    ELSE IF IsDigit(At(s, k)) /\ At(s, k) # "0" THEN 1
    ELSE IF At(s, k) = " " /\ IsDigit(At(s, k + 1)) /\ At(s, k + 1) # "0" THEN 2
    ELSE 0

RECURSIVE Number(_, _, _)
\* int() of the n characters of s from position k, blanks skipped
Number(s, k, n) ==
    IF n = 0 THEN 0
    ELSE IF At(s, k + n - 1) = " " THEN Number(s, k, n - 1)
    ELSE 10 * Number(s, k, n - 1) + DigitVal(At(s, k + n - 1))

ValueError(msg) == [ok |-> FALSE, cls |-> "ValueError", msg |-> msg]

NoMatch(s) ==
    ValueError(<<"time data ", "'">> \o s
               \o <<"'", " ", "does not match format", " ", "'%Y-%m-%d'">>)

Strptime(s) ==
    IF ~(\A k \in 1..4 : IsDigit(At(s, k))) \/ At(s, 5) # "-" THEN NoMatch(s)
    ELSE LET ml == MatchMonth(s, 6)
             dl == MatchDay(s, 7 + ml)
             end == 6 + ml + dl
             y == Number(s, 1, 4)
             m == Number(s, 6, ml)
             d == Number(s, 7 + ml, dl)
         IN  IF ml = 0 \/ dl = 0 THEN NoMatch(s)
             ELSE IF Len(s) # end
                  THEN ValueError(<<"unconverted data remains", ": ">>
                                  \o SubSeq(s, end + 1, Len(s)))
             ELSE IF y = 0 THEN ValueError(<<"year 0 is out of range">>)
             ELSE IF d > DaysInMonth(y, m)
                  THEN ValueError(<<"day is out of range for month">>)
             ELSE [ok |-> TRUE,
                   dt |-> [year |-> y, month |-> m, day |-> d,
                           hour |-> 0, minute |-> 0, second |-> 0]]

(***************************************************************************)
(* strftime('%Y-%m-%d %H:%M:%S') and the date part read back.              *)
(***************************************************************************)
Pad2(n) == <<DigitChar[((n \div 10) % 10) + 1], DigitChar[(n % 10) + 1]>>

Pad4(n) == Pad2(n \div 100) \o Pad2(n % 100)

Strftime(t) ==
    Pad4(t.year) \o <<"-">> \o Pad2(t.month) \o <<"-">> \o Pad2(t.day) \o <<" ">>
    \o Pad2(t.hour) \o <<":">> \o Pad2(t.minute) \o <<":">> \o Pad2(t.second)

\* datetime.date(): the calendar date of a datetime
DateOf(t) == [year |-> t.year, month |-> t.month, day |-> t.day]

(***************************************************************************)
(* America/New_York, by the rule in force since 2007: daylight time from   *)
(* the second Sunday of March, 02:00 EST (07:00 UTC), to the first Sunday  *)
(* of November, 02:00 EDT (06:00 UTC).  Instants are minutes since the     *)
(* start of ordinal day 0, in UTC.                                         *)
(***************************************************************************)
NthSunday[y \in Int, m \in Int, n \in Int] ==
    CHOOSE d \in (7 * n - 6)..(7 * n) : Weekday(y, m, d) = 6

DstStart[y \in Int] == Ordinal(y, 3, NthSunday[y, 3, 2]) * 1440 + 7 * 60

DstEnd[y \in Int] == Ordinal(y, 11, NthSunday[y, 11, 1]) * 1440 + 6 * 60

UtcMinutes(t, utcoffset) ==
    Ordinal(t.year, t.month, t.day) * 1440 + t.hour * 60 + t.minute - utcoffset

EasternOffsetIn[y \in Int, utc \in Int] ==
    IF DstStart[y] <= utc /\ utc < DstEnd[y] THEN -240 ELSE -300

EasternOffset[utc \in Int] == EasternOffsetIn[YearOf[utc \div 1440], utc]

Civil[minutes \in Int, sec \in Int] ==
    LET date == FromOrdinal[minutes \div 1440]
    IN  [year |-> date.year, month |-> date.month, day |-> date.day,
         hour |-> (minutes % 1440) \div 60, minute |-> minutes % 60, second |-> sec]

\* astimezone(eastern) of the instant `utc`
AsEasternAt[utc \in Int, sec \in Int] == Civil[utc + EasternOffset[utc], sec]

AsEastern(utc, sec) == AsEasternAt[utc, sec]

(***************************************************************************)
(* Lines 36-45: the Eastern time of a row's index value.  An index value   *)
(* that is no timestamp has no tzinfo attribute.                           *)
(***************************************************************************)
I1d == <<"1", "d">>

\* faulty variant of NaiveDaily: the daily timestamp shifted from UTC like the others
NaiveDailyAsUtc(ts, ivl) == AsEastern(UtcMinutes(ts, 0), ts.second)

NaiveDaily(ts, ivl) ==
    [year |-> ts.year, month |-> ts.month, day |-> ts.day,
     hour |-> 0, minute |-> 0, second |-> 0]

\* faulty variant of NaiveIntraday: a fixed UTC-5, daylight time ignored
EasternOnlyStandard(ts, ivl) == Civil[UtcMinutes(ts, 0) - 300, ts.second]

NaiveIntraday(ts, ivl) == AsEastern(UtcMinutes(ts, 0), ts.second)

FinalEstTime(ts, ivl) ==
    IF ts.tz = "other"
    THEN [ok |-> FALSE, cls |-> "AttributeError",
          msg |-> <<"'int' object has no attribute 'tzinfo'">>]
    ELSE IF ts.tz = "naive"
    THEN [ok |-> TRUE,
          dt |-> IF ivl = I1d THEN NaiveDaily(ts, ivl) ELSE NaiveIntraday(ts, ivl)]
    ELSE [ok |-> TRUE, dt |-> AsEastern(UtcMinutes(ts, ts.utcoffset), ts.second)]

\* faulty variant of Filtered: the day filter applied to 1d as well
FilterOnAnyInterval(est, target, ivl) == DateOf(est) # DateOf(target)

\* line 47: the row is skipped
Filtered(est, target, ivl) == DateOf(est) # DateOf(target) /\ ivl # I1d

(***************************************************************************)
(* Lines 52-56: float() and int() of a cell.  A cell is a numpy scalar     *)
(* (an integer, a float in tenths, or NaN) or a Series of n such values.   *)
(***************************************************************************)
SeriesError(type) ==
    [ok |-> FALSE, cls |-> "TypeError",
     msg |-> <<"cannot convert the series to ", "<class '", type, "'>">>]

PyFloat(cell) ==
    IF cell.kind = "series" /\ cell.n # 1 THEN SeriesError("float")
    ELSE [ok |-> TRUE,
          val |-> [type |-> "float", nan |-> cell.nan, tenths |-> cell.tenths]]

PyInt(cell) ==
    IF cell.kind = "series" /\ cell.n # 1 THEN SeriesError("int")
    ELSE IF cell.nan THEN ValueError(<<"cannot convert float NaN to integer">>)
    ELSE [ok |-> TRUE, val |-> [type |-> "int", units |-> cell.tenths \div 10]]

\* lines 50-57: the dict appended for a retained row, or the exception raised
Bar(row, est) ==
    LET o == PyFloat(row.Open)
        h == PyFloat(row.High)
        l == PyFloat(row.Low)
        c == PyFloat(row.Close)
        v == PyInt(row.Volume)
    IN  IF ~o.ok THEN o
        ELSE IF ~h.ok THEN h
        ELSE IF ~l.ok THEN l
        ELSE IF ~c.ok THEN c
        ELSE IF ~v.ok THEN v
        ELSE [ok |-> TRUE,
              bar |-> [timestamp |-> Strftime(est), open |-> o.val, high |-> h.val,
                       low |-> l.val, close |-> c.val, volume |-> v.val]]

(***************************************************************************)
(* The returned dicts.                                                     *)
(***************************************************************************)
ErrorDict(msg) == "error" :> msg

DataDict(bars) == "data" :> bars

IsError(r) == DOMAIN r = {"error"}

IsData(r) == DOMAIN r = {"data"}

\* lines 29-32
NoDataFound(sym, d, ivl) ==
    ErrorDict(<<"No data found for symbol: ">> \o sym \o <<", date: ">> \o d
              \o <<", interval: ">> \o ivl)

\* lines 59-62
NoDataAfterFiltering(sym, d, ivl) ==
    ErrorDict(<<"No data found for symbol: ">> \o sym \o <<", date: ">> \o d
              \o <<" (ET), interval: ">> \o ivl \o <<" after filtering">>)

\* lines 66-71: the except clauses
Except(exc) ==
    IF exc.cls = "ValueError"
    THEN IF Contains(exc.msg, "does not match format")
            \/ Contains(exc.msg, "unconverted data remains")
         THEN ErrorDict(<<"Invalid date format. Please use YYYY-MM-DD format. Detail: ">>
                        \o exc.msg)
         ELSE ErrorDict(<<"ValueError encountered: ">> \o exc.msg)
    ELSE ErrorDict(<<"An unexpected error occurred: ">> \o exc.msg)

(***************************************************************************)
(* Inputs: command lines, and what the external source may answer.         *)
(***************************************************************************)
valid_intervals ==
    << <<"1", "m">>, <<"2", "m">>, <<"5", "m">>, <<"1", "5", "m">>, <<"3", "0", "m">>,
       <<"6", "0", "m">>, <<"9", "0", "m">>, <<"1", "h">>, <<"1", "d">> >>

\* faulty variant of IsValidInterval: the interval is not checked
AnyIntervalValid(ivl) == TRUE

IsValidInterval(ivl) == \E k \in 1..Len(valid_intervals) : valid_intervals[k] = ivl

Program == <<"yfinance_fetcher.py">>

Ticker == <<"a", "b", "t">>

Day == <<"2", "0", "2", "4", "-", "0", "2", "-", "0", "1">>

Intervals ==
    {valid_intervals[k] : k \in 1..Len(valid_intervals)}
    \cup { <<"3", "m">>, <<"1", "D">>, <<>> }

Dates ==
    { Day,
      <<"2", "0", "2", "4", "-", "0", "3", "-", "1", "0">>,
      <<"2", "0", "2", "4", "-", "2", "-", "1">>,
      <<"2", "0", "2", "4", "-", "0", "2", "-", "3", "1">>,
      <<"2", "0", "2", "4", "/", "0", "2", "/", "0", "1">>,
      <<"2", "0", "2", "4", "-", "0", "2", "-", "0", "1", "x">>,
      <<"2", "0", "2", "4", "-", "1", "3", "-", "0", "1">>,
      <<"0", "0", "0", "0", "-", "0", "1", "-", "0", "1">>,
      <<"t", "o", "d", "a", "y">> }

\* the command lines: too few and too many arguments, every interval on one
\* day, and every date with a daily and an intraday interval
Argvs ==
    { <<Program>>, <<Program, Ticker>>, <<Program, Ticker, <<"1", "d">> >>,
      <<Program, Ticker, <<"1", "d">>, Day, <<"x">> >>,
      <<Program, Ticker, <<"3", "m">>, Day, <<"x">> >>,
      <<Program, <<"T">>, <<"1", "h">>, Day>> }
    \cup { <<Program, Ticker, ivl, Day>> : ivl \in Intervals }
    \cup { <<Program, Ticker, ivl, d>> : ivl \in { <<"1", "d">>, <<"5", "m">> }, d \in Dates }

Naive(y, mo, d, h, mi) ==
    [tz |-> "naive", utcoffset |-> 0, year |-> y, month |-> mo, day |-> d,
     hour |-> h, minute |-> mi, second |-> 0]

Aware(y, mo, d, h, mi, off) ==
    [tz |-> "aware", utcoffset |-> off, year |-> y, month |-> mo, day |-> d,
     hour |-> h, minute |-> mi, second |-> 0]

NotATimestamp ==
    [tz |-> "other", utcoffset |-> 0, year |-> 0, month |-> 0, day |-> 0,
     hour |-> 0, minute |-> 0, second |-> 0]

Scalar(t) == [kind |-> "scalar", n |-> 1, nan |-> FALSE, tenths |-> t]

NaN == [kind |-> "scalar", n |-> 1, nan |-> TRUE, tenths |-> 0]

Series(n, t) == [kind |-> "series", n |-> n, nan |-> FALSE, tenths |-> t]

Row(ts, open, volume) ==
    [index |-> ts, Open |-> open,
     High |-> [open EXCEPT !.tenths = @ + 5], Low |-> [open EXCEPT !.tenths = @ - 5],
     Close |-> [open EXCEPT !.tenths = @ + 1], Volume |-> volume]

\* the rows the external source may deliver, in any order and number up to MaxRows
Rows ==
    { Row(Naive(2024, 2, 1, 14, 30), Scalar(1001), Scalar(50000)),
      Row(Naive(2024, 2, 1, 3, 0), Scalar(1002), Scalar(60000)),
      Row(Naive(2024, 2, 2, 2, 0), Series(1, 1003), Series(1, 70000)),
      Row(Aware(2024, 2, 1, 15, 55, -300), Scalar(1004), Scalar(80007)),
      Row(Aware(2024, 2, 1, 0, 0, 0), Scalar(1005), Scalar(90000)),
      Row(Naive(2024, 2, 1, 0, 0), Scalar(1006), Scalar(10000)),
      Row(Naive(2024, 3, 11, 4, 30), Scalar(1007), Scalar(20000)),
      Row(Naive(2024, 2, 1, 16, 0), Scalar(1009), NaN),
      Row(Naive(2024, 2, 1, 17, 0), Series(2, 1010), Series(2, 40000)),
      Row(NotATimestamp, Scalar(1011), Scalar(50000)) }

RECURSIVE Tables(_)
Tables(n) ==
    IF n = 0 THEN { <<>> }
    ELSE Tables(n - 1)
         \cup { Append(t, r) : t \in {u \in Tables(n - 1) : Len(u) = n - 1}, r \in Rows }

\* what yf.download may raise
Faults ==
    { [ok |-> FALSE, cls |-> "ConnectionError", msg |-> <<"Max retries exceeded">>],
      [ok |-> FALSE, cls |-> "ValueError", msg |-> <<"Invalid input - interval">>],
      [ok |-> FALSE, cls |-> "ValueError",
       msg |-> <<"time data ", "'", "N", "'", " ", "does not match format", " ",
                 "'%Y-%m-%d %H:%M:%S'">>] }

EmptyDict == <<>>

(***************************************************************************)
(* main and fetch_yfinance_data.                                           *)
(***************************************************************************)
Init ==
    /\ argv \in Argvs
    /\ pc = "main"
    /\ symbol = <<>>
    /\ interval = <<>>
    /\ date_str = <<>>
    /\ target_date = [year |-> 0, month |-> 0, day |-> 0,
                      hour |-> 0, minute |-> 0, second |-> 0]
    /\ data = <<>>
    /\ i = 0
    /\ formatted_data = <<>>
    /\ kept = <<>>
    /\ raised = <<>>
    /\ result = EmptyDict
    /\ stdout = <<>>
    /\ exit_status = 0
    /\ downloads = 0

UsageText ==
    <<"Usage: python yfinance_fetcher.py <symbol> <interval> <date>. ",
      "Example: python yfinance_fetcher.py AAPL 1d 2024-02-01. ",
      "Intervals: 1m, 2m, 5m, 15m, 30m, 60m, 90m, 1h, 1d. ",
      "Note: Intraday data (intervals < 1d) is only available for the last 60 days.">>

Printed(doc, indent) == Append(stdout, [doc |-> doc, indent |-> indent])

\* lines 74-81
UsageError ==
    /\ pc = "main"
    /\ Len(argv) # 4
    /\ stdout' = Printed(ErrorDict(UsageText), "None")
    /\ exit_status' = 1
    /\ pc' = "exited"
    /\ UNCHANGED <<argv, symbol, interval, date_str, target_date, data, i,
                   formatted_data, kept, raised, result, downloads>>

\* lines 83-90
InvalidInterval ==
    /\ pc = "main"
    /\ Len(argv) = 4
    /\ ~IsValidInterval(argv[3])
    /\ stdout' = Printed(ErrorDict(<<"Invalid interval. Must be one of: ">>
                                 \o Join(<<", ">>, valid_intervals)), "None")
    /\ exit_status' = 1
    /\ pc' = "exited"
    /\ UNCHANGED <<argv, symbol, interval, date_str, target_date, data, i,
                   formatted_data, kept, raised, result, downloads>>

\* lines 83-92: the call of fetch_yfinance_data
CallFetch ==
    /\ pc = "main"
    /\ Len(argv) = 4
    /\ IsValidInterval(argv[3])
    /\ symbol' = StrUpper(argv[2])
    /\ interval' = argv[3]
    /\ date_str' = argv[4]
    /\ pc' = "strptime"
    /\ UNCHANGED <<argv, target_date, data, i, formatted_data, kept, raised, result,
                   stdout, exit_status, downloads>>

\* line 10 raises: lines 66-69
StrptimeRaises ==
    /\ pc = "strptime"
    /\ ~Strptime(date_str).ok
    /\ raised' = <<Strptime(date_str)>>
    /\ result' = Except(Strptime(date_str))
    /\ pc' = "print"
    /\ UNCHANGED <<argv, symbol, interval, date_str, target_date, data, i,
                   formatted_data, kept, stdout, exit_status, downloads>>

\* faulty variant of StrptimeReturns: the fetch goes on whatever the parse gave
StrptimeUnchecked ==
    /\ pc = "strptime"
    /\ target_date' = IF Strptime(date_str).ok THEN Strptime(date_str).dt ELSE target_date
    /\ pc' = "download"
    /\ UNCHANGED <<argv, symbol, interval, date_str, data, i, formatted_data, kept,
                   raised, result, stdout, exit_status, downloads>>

\* lines 10-18
StrptimeReturns ==
    /\ pc = "strptime"
    /\ Strptime(date_str).ok
    /\ target_date' = Strptime(date_str).dt
    /\ pc' = "download"
    /\ UNCHANGED <<argv, symbol, interval, date_str, data, i, formatted_data, kept,
                   raised, result, stdout, exit_status, downloads>>

\* lines 20-27 raise: lines 66-71
DownloadRaises ==
    /\ pc = "download"
    /\ \E exc \in Faults :
          /\ raised' = <<exc>>
          /\ result' = Except(exc)
    /\ downloads' = downloads + 1
    /\ pc' = "print"
    /\ UNCHANGED <<argv, symbol, interval, date_str, target_date, data, i,
                   formatted_data, kept, stdout, exit_status>>

\* lines 20-32: the table is empty
DownloadEmpty ==
    /\ pc = "download"
    /\ data' = <<>>
    /\ downloads' = downloads + 1
    /\ result' = NoDataFound(symbol, date_str, interval)
    /\ pc' = "print"
    /\ UNCHANGED <<argv, symbol, interval, date_str, target_date, i, formatted_data,
                   kept, raised, stdout, exit_status>>

\* lines 20-35: the table has rows
DownloadRows ==
    /\ pc = "download"
    /\ \E t \in Tables(MaxRows) :
          /\ Len(t) > 0
          /\ data' = t
    /\ downloads' = downloads + 1
    /\ formatted_data' = <<>>
    /\ i' = 1
    /\ pc' = "loop"
    /\ UNCHANGED <<argv, symbol, interval, date_str, target_date, kept, raised,
                   result, stdout, exit_status>>

\* lines 36-45 or 50-57 raise for row i: lines 66-71
RowRaises ==
    /\ pc = "loop"
    /\ i <= Len(data)
    /\ LET est == FinalEstTime(data[i].index, interval)
           exc == IF ~est.ok THEN est ELSE Bar(data[i], est.dt)
       IN  /\ \/ ~est.ok
              \/ /\ est.ok
                 /\ ~Filtered(est.dt, target_date, interval)
                 /\ ~Bar(data[i], est.dt).ok
           /\ raised' = <<exc>>
           /\ result' = Except(exc)
    /\ pc' = "print"
    /\ UNCHANGED <<argv, symbol, interval, date_str, target_date, data, i,
                   formatted_data, kept, stdout, exit_status, downloads>>

\* lines 36-48: row i is skipped
RowSkipped ==
    /\ pc = "loop"
    /\ i <= Len(data)
    /\ FinalEstTime(data[i].index, interval).ok
    /\ Filtered(FinalEstTime(data[i].index, interval).dt, target_date, interval)
    /\ i' = i + 1
    /\ UNCHANGED <<argv, pc, symbol, interval, date_str, target_date, data,
                   formatted_data, kept, raised, result, stdout, exit_status, downloads>>

\* faulty variant of RowAppended: the bar is inserted at the front
RowPrepended ==
    /\ pc = "loop"
    /\ i <= Len(data)
    /\ FinalEstTime(data[i].index, interval).ok
    /\ LET est == FinalEstTime(data[i].index, interval).dt
       IN  /\ ~Filtered(est, target_date, interval)
           /\ Bar(data[i], est).ok
           /\ formatted_data' = <<Bar(data[i], est).bar>> \o formatted_data
    /\ kept' = <<i>> \o kept
    /\ i' = i + 1
    /\ UNCHANGED <<argv, pc, symbol, interval, date_str, target_date, data, raised,
                   result, stdout, exit_status, downloads>>

\* lines 36-57: row i is appended
RowAppended ==
    /\ pc = "loop"
    /\ i <= Len(data)
    /\ FinalEstTime(data[i].index, interval).ok
    /\ LET est == FinalEstTime(data[i].index, interval).dt
       IN  /\ ~Filtered(est, target_date, interval)
           /\ Bar(data[i], est).ok
           /\ formatted_data' = Append(formatted_data, Bar(data[i], est).bar)
    /\ kept' = Append(kept, i)
    /\ i' = i + 1
    /\ UNCHANGED <<argv, pc, symbol, interval, date_str, target_date, data, raised,
                   result, stdout, exit_status, downloads>>

\* faulty variant of LoopDone: the check of line 59 is missing
LoopDoneNoEmptyCheck ==
    /\ pc = "loop"
    /\ i > Len(data)
    /\ result' = DataDict(formatted_data)
    /\ pc' = "print"
    /\ UNCHANGED <<argv, symbol, interval, date_str, target_date, data, i,
                   formatted_data, kept, raised, stdout, exit_status, downloads>>

\* lines 59-64
LoopDone ==
    /\ pc = "loop"
    /\ i > Len(data)
    /\ result' = IF formatted_data = <<>>
                 THEN NoDataAfterFiltering(symbol, date_str, interval)
                 ELSE DataDict(formatted_data)
    /\ pc' = "print"
    /\ UNCHANGED <<argv, symbol, interval, date_str, target_date, data, i,
                   formatted_data, kept, raised, stdout, exit_status, downloads>>

\* faulty variant of PrintResult: an error result ends the process with status 1
PrintResultExitOnError ==
    /\ pc = "print"
    /\ stdout' = Printed(result, "2")
    /\ exit_status' = IF IsError(result) THEN 1 ELSE 0
    /\ pc' = "exited"
    /\ UNCHANGED <<argv, symbol, interval, date_str, target_date, data, i,
                   formatted_data, kept, raised, result, downloads>>

\* line 93, and the interpreter's normal exit
PrintResult ==
    /\ pc = "print"
    /\ stdout' = Printed(result, "2")
    /\ exit_status' = 0
    /\ pc' = "exited"
    /\ UNCHANGED <<argv, symbol, interval, date_str, target_date, data, i,
                   formatted_data, kept, raised, result, downloads>>

Next ==
    \/ UsageError
    \/ InvalidInterval
    \/ CallFetch
    \/ StrptimeRaises
    \/ StrptimeReturns
    \/ DownloadRaises
    \/ DownloadEmpty
    \/ DownloadRows
    \/ RowRaises
    \/ RowSkipped
    \/ RowAppended
    \/ LoopDone
    \/ PrintResult

Spec == Init /\ [][Next]_vars

(***************************************************************************)
(* Properties.                                                             *)
(***************************************************************************)
\* the interval enumeration as the specification states it
IntervalEnumeration ==
    { <<"1", "m">>, <<"2", "m">>, <<"5", "m">>, <<"1", "5", "m">>, <<"3", "0", "m">>,
      <<"6", "0", "m">>, <<"9", "0", "m">>, <<"1", "h">>, <<"1", "d">> }

\* the command line is a usage error: not 3 user arguments, or a bad interval
IsUsageError == Len(argv) # 4 \/ argv[3] \notin IntervalEnumeration

Returned == pc \in {"print", "exited"}

\* C1: a usage error (argument count other than 3, or an interval outside the
\* enumeration) is rejected before any fetch: fetch_yfinance_data is never
\* entered, the external source is never called, and once the process has
\* exited exactly one JSON error object was printed and the status is non-zero.
C1_UsageErrorRejectedBeforeFetch ==
    IsUsageError =>
        /\ pc \in {"main", "exited"}
        /\ downloads = 0
        /\ result = EmptyDict
        /\ pc = "exited" =>
              /\ exit_status # 0
              /\ Len(stdout) = 1
              /\ IsError(stdout[1].doc)

C1_Witness ==
    /\ pc = "exited"
    /\ Len(argv) = 4
    /\ argv[3] = <<"3", "m">>
    /\ exit_status = 1
    /\ Len(stdout) = 1

\* C6: the exit status is non-zero exactly when a usage error occurred; a run
\* that reaches the fetch can always take its next step until it has exited, and
\* has then printed its result (data or error) as one JSON document, with
\* status 0.
C6_ExitStatusNonZeroIffUsageError ==
    /\ pc = "exited" => (exit_status # 0 <=> IsUsageError)
    /\ (pc = "exited" /\ ~IsUsageError) =>
          /\ exit_status = 0
          /\ stdout = <<[doc |-> result, indent |-> "2"]>>
          /\ IsError(result) \/ IsData(result)
    /\ pc # "exited" => ENABLED Next

C6_Witness ==
    /\ pc = "exited"
    /\ ~IsUsageError
    /\ IsError(result)
    /\ raised # <<>>
    /\ exit_status = 0

\* C10: the external source is called at most once, and only after the argument
\* count and interval checks of main and the parse of the date have succeeded;
\* when the date does not parse it is never called.
C10_ParseBeforeFetchAtMostOnce ==
    /\ downloads <= 1
    /\ downloads = 1 =>
          /\ Len(argv) = 4
          /\ argv[3] \in IntervalEnumeration
          /\ Strptime(argv[4]).ok
    /\ (pc \in {"download", "loop"}) =>
          (Len(argv) = 4 /\ argv[3] \in IntervalEnumeration /\ Strptime(argv[4]).ok)

C10_Witness ==
    /\ pc = "exited"
    /\ ~IsUsageError
    /\ ~Strptime(argv[4]).ok
    /\ IsError(result)
    /\ downloads = 0

\* the requested date, and the Eastern date and time a row's timestamp converts
\* to (a naive timestamp read as UTC)
RequestedDate == DateOf(Strptime(argv[4]).dt)

EasternOfRow(ts) ==
    AsEastern(UtcMinutes(ts, IF ts.tz = "aware" THEN ts.utcoffset ELSE 0), ts.second)

\* the date a bar's timestamp string reads back as
ParsedBack(timestamp) == DateOf(Strptime(SubSeq(timestamp, 1, 10)).dt)

Daily == ~IsUsageError /\ argv[3] = <<"1", "d">>

SubDaily == ~IsUsageError /\ argv[3] # <<"1", "d">>

\* C2: for a sub-daily interval every bar of the returned data list reads back
\* as the requested date, and no row whose converted Eastern date differs from
\* the requested date has a bar.
C2_SubDailyBarsOnRequestedDate ==
    (IsData(result) /\ SubDaily) =>
        /\ \A k \in 1..Len(result.data) :
              /\ Strptime(SubSeq(result.data[k].timestamp, 1, 10)).ok
              /\ ParsedBack(result.data[k].timestamp) = RequestedDate
        /\ \A k \in 1..Len(data) :
              DateOf(EasternOfRow(data[k].index)) # RequestedDate
                  => ~(\E j \in 1..Len(kept) : kept[j] = k)

C2_Witness ==
    /\ pc = "exited"
    /\ IsData(result)
    /\ SubDaily
    /\ Len(result.data) < Len(data)
    /\ \E k \in 1..Len(data) :
          /\ data[k].index.tz = "naive"
          /\ DateOf(data[k].index) # RequestedDate
          /\ \E j \in 1..Len(kept) : kept[j] = k

\* C3: a data variant never holds an empty list; an empty raw result gives the
\* error "No data found for symbol: S, date: D, interval: I", and a raw result
\* of which no row is kept gives "No data found ... (ET) ... after filtering".
C3_NoEmptyDataList ==
    /\ IsData(result) => Len(result.data) > 0
    /\ (Returned /\ downloads = 1 /\ raised = <<>> /\ data = <<>>) =>
          /\ IsError(result)
          /\ result.error = <<"No data found for symbol: ">> \o StrUpper(argv[2])
                            \o <<", date: ">> \o argv[4]
                            \o <<", interval: ">> \o argv[3]
    /\ (Returned /\ raised = <<>> /\ data # <<>> /\ kept = <<>>) =>
          /\ IsError(result)
          /\ result.error = <<"No data found for symbol: ">> \o StrUpper(argv[2])
                            \o <<", date: ">> \o argv[4]
                            \o <<" (ET), interval: ">> \o argv[3]
                            \o <<" after filtering">>

C3_Witness ==
    /\ pc = "exited"
    /\ data # <<>>
    /\ raised = <<>>
    /\ kept = <<>>
    /\ IsError(result)

\* C4 (as claimed): every date string that strptime rejects, an invalid calendar
\* date of the right shape included, gives the error that begins with "Invalid
\* date format" and ends with the parser's detail.
C4_EveryParseFailureIsInvalidDateFormat ==
    (Returned /\ ~IsUsageError /\ ~Strptime(argv[4]).ok) =>
        /\ IsError(result)
        /\ result.error
             = <<"Invalid date format. Please use YYYY-MM-DD format. Detail: ">>
               \o Strptime(argv[4]).msg

\* the messages that name no particular cause
GenericPrefixes == {"ValueError encountered: ", "An unexpected error occurred: "}

\* C5 (as claimed): a fault raised by the external fetch or by the
\* transformation of a row is returned as the error variant, a generic message
\* followed by the fault's text, and never with a data list.
C5_FaultsGiveGenericError ==
    (Returned /\ downloads = 1 /\ raised # <<>>) =>
        /\ IsError(result)
        /\ \E prefix \in GenericPrefixes : result.error = <<prefix>> \o raised[1].msg

IsAfterFiltering(r) == IsError(r) /\ r.error[Len(r.error)] = " after filtering"

\* C7: for 1d nothing is filtered: a data variant has one bar per raw row, also
\* for rows whose Eastern date differs from the requested date, a non-empty raw
\* result without a fault gives the data variant, and the "after filtering"
\* error never occurs; for a sub-daily interval a non-empty raw result wholly
\* outside the requested Eastern day gives the "after filtering" error.
C7_DailyNotFiltered ==
    /\ (IsData(result) /\ Daily) => Len(result.data) = Len(data)
    /\ (Returned /\ Daily /\ data # <<>> /\ raised = <<>>) => IsData(result)
    /\ (Returned /\ ~IsUsageError /\ Daily) => ~IsAfterFiltering(result)
    /\ (Returned /\ SubDaily /\ data # <<>>
        /\ \A k \in 1..Len(data) :
              /\ data[k].index.tz # "other"
              /\ DateOf(EasternOfRow(data[k].index)) # RequestedDate)
          => IsAfterFiltering(result)

C7_Witness ==
    /\ pc = "exited"
    /\ Daily
    /\ IsData(result)
    /\ \E k \in 1..Len(result.data) : ParsedBack(result.data[k].timestamp) # RequestedDate

\* the rows the day filter retains, as indices into the raw result
Retained(k) == Daily \/ DateOf(EasternOfRow(data[k].index)) = RequestedDate

RetainedRows == SelectSeq([k \in 1..Len(data) |-> k], Retained)

IsBarOf(bar, row) ==
    /\ bar.open.tenths = row.Open.tenths
    /\ bar.high.tenths = row.High.tenths
    /\ bar.low.tenths = row.Low.tenths
    /\ bar.close.tenths = row.Close.tenths
    /\ bar.volume.units * 10 <= row.Volume.tenths
    /\ row.Volume.tenths < (bar.volume.units + 1) * 10

\* C8: the bars of a data variant are the retained rows, one bar per row, in
\* the order of the raw result.
C8_BarsAreRetainedRowsInOrder ==
    IsData(result) =>
        /\ Len(result.data) = Len(RetainedRows)
        /\ \A k \in 1..Len(RetainedRows) : IsBarOf(result.data[k], data[RetainedRows[k]])

C8_Witness ==
    /\ pc = "exited"
    /\ IsData(result)
    /\ Len(result.data) = 2
    /\ Len(data) > 2 \/ SubDaily
    /\ result.data[1].open.tenths # result.data[2].open.tenths

\* C9: the timestamp of the bar of a row follows from the row's variant: naive
\* with 1d, its own date at 00:00:00; naive otherwise, read as UTC and converted
\* to Eastern; aware, converted to Eastern whatever the interval.
C9_OneConversionPerVariant ==
    \A k \in 1..Len(formatted_data) :
        LET ts == data[kept[k]].index
            bar == formatted_data[k]
        IN  /\ (ts.tz = "naive" /\ Daily) =>
                  bar.timestamp = Pad4(ts.year) \o <<"-">> \o Pad2(ts.month) \o <<"-">>
                                  \o Pad2(ts.day)
                                  \o <<" ", "0", "0", ":", "0", "0", ":", "0", "0">>
            /\ (ts.tz = "naive" /\ SubDaily) =>
                  bar.timestamp = Strftime(AsEastern(UtcMinutes(ts, 0), ts.second))
            /\ ts.tz = "aware" =>
                  bar.timestamp = Strftime(AsEastern(UtcMinutes(ts, ts.utcoffset), ts.second))
            /\ (ts = Naive(2024, 2, 1, 0, 0) /\ Daily) =>
                  bar.timestamp = <<"2", "0", "2", "4", "-", "0", "2", "-", "0", "1", " ",
                                    "0", "0", ":", "0", "0", ":", "0", "0">>
            /\ (ts = Naive(2024, 2, 1, 14, 30) /\ SubDaily) =>
                  bar.timestamp = <<"2", "0", "2", "4", "-", "0", "2", "-", "0", "1", " ",
                                    "0", "9", ":", "3", "0", ":", "0", "0">>

C9_Witness ==
    /\ pc = "exited"
    /\ Daily
    /\ IsData(result)
    /\ data[1].index = Naive(2024, 2, 1, 0, 0)
    /\ result.data[1].timestamp
         = <<"2", "0", "2", "4", "-", "0", "2", "-", "0", "1", " ",
             "0", "0", ":", "0", "0", ":", "0", "0">>

====
